---- MODULE Spec2Model ----
(***************************************************************************)
(* Registration, password login and cookie sessions of the actix-web       *)
(* application in src/src: models.rs (forms, validation, projection),      *)
(* database.rs (the users table), auth.rs (extractors, login_user,         *)
(* logout), handlers.rs (the route handlers) and main.rs (the session      *)
(* middleware and its key).                                                *)
(*                                                                         *)
(* Strings are sequences of characters; a character is a one-letter TLA+   *)
(* string and has a UTF-8 width in bytes, because String::len() counts     *)
(* bytes.  Option<T> is [some, val].  The users table is a set of rows.    *)
(* A session cookie is the session state sealed under the key of the       *)
(* process that issued it (CookieSessionStore keeps no server-side state). *)
(***************************************************************************)
EXTENDS Integers, Sequences, FiniteSets, TLC

VARIABLES
    store,      \* the rows of table users (users.db, survives restarts)
    key,        \* the session key of the running process (Key::generate)
    jar,        \* the session cookie the browser currently holds
    revoked,    \* the last cookie that a POST /logout found to hold an identity
    req,        \* per request slot: a POST /register, in flight or answered
    last        \* the last request answered in one step: inputs and response

vars == <<store, key, jar, revoked, req, last>>

(***************************************************************************)
(* Bounds of the model.                                                    *)
(***************************************************************************)
MaxRestarts == 1
MaxRequests == 2

(***************************************************************************)
(* Strings.                                                                *)
(***************************************************************************)
ByteWidth(ch) ==
    IF ch = "é" THEN 2 ELSE 1

RECURSIVE ByteLen(_)
ByteLen(s) ==
    IF s = <<>> THEN 0 ELSE ByteWidth(Head(s)) + ByteLen(Tail(s))

CharCount(s) ==
    Len(s)

is_empty(s) ==
    ByteLen(s) = 0

contains(s, ch) ==
    \E i \in 1..Len(s) : s[i] = ch

None ==
    [some |-> FALSE, val |-> <<>>]

Some(s) ==
    [some |-> TRUE, val |-> s]

E_a == <<"a", "@", "x">>
E_b == <<"b", "@", "x">>
E_c == <<"c", "@", "x">>
E_noat == <<"a", "x">>
E_at == <<"@">>
U_abc == <<"a", "b", "c">>
U_bob == <<"b", "o", "b">>
U_ee == <<"é", "é">>
U_ab == <<"a", "b">>
U_e == <<"é">>
P_secret == <<"s", "e", "c", "r", "e", "t">>
P_hunter == <<"h", "u", "n", "t", "e", "r">>
P_eee == <<"é", "é", "é">>
P_abc == <<"a", "b", "c">>
N_first == <<"F">>
N_last == <<"L">>

(***************************************************************************)
(* models.rs                                                               *)
(***************************************************************************)
RegisterForm(e, u, p, pc, fn, ln) ==
    [email |-> e, username |-> u, password |-> p, password_confirm |-> pc,
     first_name |-> fn, last_name |-> ln]

LoginForm(e, p) ==
    [email |-> e, password |-> p]

M_EmailRequired == "Email is required"
M_EmailInvalid == "Please enter a valid email address"
M_UsernameRequired == "Username is required"
M_UsernameShort == "Username must be at least 3 characters long"
M_PasswordRequired == "Password is required"
M_PasswordShort == "Password must be at least 6 characters long"
M_Mismatch == "Passwords do not match"

email_errors(form) ==
    IF is_empty(form.email) THEN <<M_EmailRequired>>
    ELSE IF ~contains(form.email, "@") THEN <<M_EmailInvalid>>
    ELSE <<>>

username_errors(form) ==
    IF is_empty(form.username) THEN <<M_UsernameRequired>>
    ELSE IF ByteLen(form.username) < 3 THEN <<M_UsernameShort>>
    ELSE <<>>

password_errors(form) ==
    IF is_empty(form.password) THEN <<M_PasswordRequired>>
    ELSE IF ByteLen(form.password) < 6 THEN <<M_PasswordShort>>
    ELSE <<>>

\* A confirmation check that compares only the lengths of the two passwords.
confirm_errors_by_length(form) ==
    IF ByteLen(form.password) # ByteLen(form.password_confirm)
    THEN <<M_Mismatch>> ELSE <<>>

confirm_errors(form) ==
    IF form.password # form.password_confirm THEN <<M_Mismatch>> ELSE <<>>

\* RegisterForm::validate: the vector of messages; Ok(()) is the empty vector.
validate(form) ==
    email_errors(form) \o username_errors(form) \o password_errors(form)
        \o confirm_errors(form)

\* User::new: no names, no avatar, active.
User_new(id, email, username, password_hash) ==
    [id |-> id, email |-> email, username |-> username,
     password_hash |-> password_hash, first_name |-> None, last_name |-> None,
     avatar_url |-> None, is_active |-> TRUE]

\* A display name that falls back to the username unless a first name is set.
full_name_needs_first(user) ==
    IF user.first_name.some /\ user.last_name.some
    THEN user.first_name.val \o <<" ">> \o user.last_name.val
    ELSE IF user.first_name.some THEN user.first_name.val
    ELSE user.username

\* User::full_name
full_name(user) ==
    IF user.first_name.some /\ user.last_name.some
    THEN user.first_name.val \o <<" ">> \o user.last_name.val
    ELSE IF user.first_name.some THEN user.first_name.val
    ELSE IF user.last_name.some THEN user.last_name.val
    ELSE user.username

\* impl From<User> for SessionUser
SessionUser_from(user) ==
    [id |-> user.id, email |-> user.email, username |-> user.username,
     full_name |-> full_name(user), avatar_url |-> user.avatar_url]

(***************************************************************************)
(* database.rs                                                             *)
(***************************************************************************)
NoFault == "none"
DbErrors == {"database is locked"}
HashErrors == {"bcrypt: random source failed"}

DEFAULT_COST == 12

\* bcrypt::hash and bcrypt::verify: a salted digest that verify recomputes.
\* Every password of the model is shorter than bcrypt's 72-byte input limit.
hash(password, cost, salt) ==
    [cost |-> cost, salt |-> salt, digest |-> <<salt, cost, password>>]

verify(password, password_hash) ==
    password_hash.digest = <<password_hash.salt, password_hash.cost, password>>

Ok(v) ==
    [tag |-> "Ok", val |-> v, err |-> ""]

Err(e) ==
    [tag |-> "Err", val |-> {}, err |-> e]

\* Uuid::new_v4 and the salt bcrypt draws: values no row of the table
\* carries.
RECURSIVE MaxId(_)
MaxId(rows) ==
    IF rows = {} THEN 0
    ELSE LET r == CHOOSE x \in rows : TRUE
             m == MaxId(rows \ {r})
         IN  IF r.id > m THEN r.id ELSE m

new_v4(rows) ==
    MaxId(rows) + 1

gen_salt(rows) ==
    MaxId(rows) + 1

\* A table whose only UNIQUE columns are id and email.
UniqueViolation_email_only(rows, row) ==
    IF \E r \in rows : r.id = row.id THEN "UNIQUE constraint failed: users.id"
    ELSE IF \E r \in rows : r.email = row.email
    THEN "UNIQUE constraint failed: users.email"
    ELSE NoFault

\* The table's constraints: id PRIMARY KEY, email UNIQUE, username UNIQUE.
UniqueViolation(rows, row) ==
    IF \E r \in rows : r.id = row.id THEN "UNIQUE constraint failed: users.id"
    ELSE IF \E r \in rows : r.email = row.email
    THEN "UNIQUE constraint failed: users.email"
    ELSE IF \E r \in rows : r.username = row.username
    THEN "UNIQUE constraint failed: users.username"
    ELSE NoFault

\* An INSERT that also deletes the deactivated rows.
insert_purging(rows, row) ==
    IF UniqueViolation(rows, row) = NoFault
    THEN Ok({r \in rows : r.is_active} \cup {row})
    ELSE Err(UniqueViolation(rows, row))

\* An INSERT into a table that has no constraint.
insert_unchecked(rows, row) ==
    Ok(rows \cup {row})

\* INSERT INTO users: the new table, or the constraint that rejects the row.
insert(rows, row) ==
    IF UniqueViolation(rows, row) = NoFault THEN Ok(rows \cup {row})
    ELSE Err(UniqueViolation(rows, row))

\* Database::create_user: Ok carries the new table.  The row stores the form's
\* names; avatar_url is not bound and stays NULL.
create_user(rows, form, hashFault, dbFault) ==
    IF hashFault # NoFault THEN Err(hashFault)
    ELSE LET user == User_new(new_v4(rows), form.email, form.username,
                              hash(form.password, DEFAULT_COST,
                                   gen_salt(rows)))
             row == [user EXCEPT !.first_name = form.first_name,
                                 !.last_name = form.last_name]
         IN  IF dbFault # NoFault THEN Err(dbFault) ELSE insert(rows, row)

\* A lookup that matches the submitted email against the username column.
authenticate_user_by_username(rows, email, password, dbFault) ==
    IF dbFault # NoFault THEN Err(dbFault)
    ELSE LET found == {r \in rows : r.username = email /\ r.is_active}
         IN  IF found = {} THEN Ok({})
             ELSE LET record == CHOOSE r \in found : TRUE
                  IN  IF verify(password, record.password_hash)
                      THEN Ok({record})
                      ELSE Ok({})

\* A lookup that reports a password that does not verify as an error.
authenticate_user_verbose(rows, email, password, dbFault) ==
    IF dbFault # NoFault THEN Err(dbFault)
    ELSE LET found == {r \in rows : r.email = email /\ r.is_active}
         IN  IF found = {} THEN Ok({})
             ELSE LET record == CHOOSE r \in found : TRUE
                  IN  IF verify(password, record.password_hash)
                      THEN Ok({record})
                      ELSE Err("password does not verify")

\* Database::authenticate_user: Ok({user}) is Ok(Some(user)), Ok({}) is Ok(None).
authenticate_user(rows, email, password, dbFault) ==
    IF dbFault # NoFault THEN Err(dbFault)
    ELSE LET found == {r \in rows : r.email = email /\ r.is_active}
         IN  IF found = {} THEN Ok({})
             ELSE LET record == CHOOSE r \in found : TRUE
                  IN  IF verify(password, record.password_hash)
                      THEN Ok({record})
                      ELSE Ok({})

\* An existence query that never finds a row.
email_exists_never(rows, email, dbFault) ==
    IF dbFault # NoFault THEN Err(dbFault) ELSE Ok(FALSE)

\* Database::email_exists: SELECT COUNT(*) ... WHERE email = ?1, count > 0.
email_exists(rows, email, dbFault) ==
    IF dbFault # NoFault THEN Err(dbFault)
    ELSE Ok(Cardinality({r \in rows : r.email = email}) > 0)

username_exists(rows, username, dbFault) ==
    IF dbFault # NoFault THEN Err(dbFault)
    ELSE Ok(Cardinality({r \in rows : r.username = username}) > 0)

(***************************************************************************)
(* main.rs: SessionMiddleware over CookieSessionStore.  The session state  *)
(* is a set of <<key, value>> entries and travels sealed in the cookie.    *)
(***************************************************************************)
EmptyState == {}

NoCookie ==
    [kind |-> "none", key |-> 0, state |-> EmptyState]

Garbage ==
    [kind |-> "garbage", key |-> 0, state |-> EmptyState]

\* What the middleware sends back when the handler changed the session.
Seal(k, state) ==
    [kind |-> "sealed", key |-> k, state |-> state]

\* A middleware that opens a sealed cookie whatever key sealed it.
LoadSession_any_key(cookie, k) ==
    IF cookie.kind = "sealed" THEN cookie.state ELSE EmptyState

\* What the middleware loads for a request: a cookie that is missing, is not
\* a sealed value or was sealed under another key gives the empty state.
LoadSession(cookie, k) ==
    IF cookie.kind = "sealed" /\ cookie.key = k THEN cookie.state
    ELSE EmptyState

(***************************************************************************)
(* auth.rs                                                                 *)
(***************************************************************************)
\* serde_json::to_string(&SessionUser) and serde_json::from_str: JSON text is
\* the set of its members; from_str needs the four String members.
to_string(user) ==
    { <<"id", user.id>>, <<"email", user.email>>,
      <<"username", user.username>>, <<"full_name", user.full_name>>,
      <<"avatar_url", user.avatar_url>> }

Member(json, name) ==
    (CHOOSE m \in json : m[1] = name)[2]

HasMember(json, name) ==
    \E m \in json : m[1] = name

from_str(json) ==
    IF \A n \in {"id", "email", "username", "full_name"} : HasMember(json, n)
    THEN { [id |-> Member(json, "id"), email |-> Member(json, "email"),
            username |-> Member(json, "username"),
            full_name |-> Member(json, "full_name"),
            avatar_url |-> IF HasMember(json, "avatar_url")
                           THEN Member(json, "avatar_url") ELSE None] }
    ELSE {}

\* session.get::<String>("user") then from_str: the identity, as a set of
\* at most one SessionUser.
Identity(state) ==
    IF \E e \in state : e[1] = "user"
    THEN from_str((CHOOSE e \in state : e[1] = "user")[2])
    ELSE {}

\* An extractor that lets a session without an identity through.
AuthUser_lenient(state) ==
    Ok(Identity(state))

\* AuthUser::from_request: Ok(AuthUser(user)) or Err(ErrorUnauthorized).
AuthUser(state) ==
    IF Identity(state) # {} THEN Ok(Identity(state))
    ELSE Err("Not authenticated")

\* An optional extractor that rejects a session without an identity.
OptionalAuthUser_strict(state) ==
    IF Identity(state) # {} THEN Ok(Identity(state))
    ELSE Err("Not authenticated")

\* OptionalAuthUser::from_request: always Ok, of Some(user) or None.
OptionalAuthUser(state) ==
    IF Identity(state) # {} THEN Ok(Identity(state)) ELSE Ok({})

\* A login_user that writes the entry only into a session that has none.
login_user_keep_first(state, user) ==
    IF \E e \in state : e[1] = "user" THEN state
    ELSE state \cup {<<"user", to_string(user)>>}

\* login_user: session.insert("user", json) replaces the entry.
login_user(state, user) ==
    {e \in state : e[1] # "user"} \cup {<<"user", to_string(user)>>}

\* A clear that leaves the session as it is.
clear_nothing(state) ==
    state

\* session.clear() in logout.
clear(state) ==
    EmptyState

(***************************************************************************)
(* handlers.rs and auth.rs: the handlers as functions of what they read.   *)
(* A handler's result is its response, the session state it leaves and     *)
(* whether it wrote the session (the middleware then sends a new cookie).  *)
(***************************************************************************)
Found(location) ==
    [status |-> 302, location |-> location, template |-> "", errors |-> <<>>,
     user |-> {}]

Page(template, errors, user) ==
    [status |-> 200, location |-> "", template |-> template,
     errors |-> errors, user |-> user]

ErrorUnauthorized(message) ==
    [status |-> 401, location |-> "", template |-> "", errors |-> <<message>>,
     user |-> {}]

Handled(resp, state, changed) ==
    [resp |-> resp, session |-> state, changed |-> changed]

login_page(state) ==
    IF OptionalAuthUser(state).val # {}
    THEN Handled(Found("/dashboard"), state, FALSE)
    ELSE Handled(Page("auth/login-simple.html.tera", <<>>, {}), state, FALSE)

register_page(state) ==
    IF OptionalAuthUser(state).val # {}
    THEN Handled(Found("/dashboard"), state, FALSE)
    ELSE Handled(Page("auth/register-simple.html.tera", <<>>, {}), state, FALSE)

\* A login_submit that clears the session when the login fails.
login_submit_clears_on_failure(rows, state, form, dbFault) ==
    LET result == authenticate_user(rows, form.email, form.password, dbFault)
    IN  IF result.tag = "Ok" /\ result.val # {}
        THEN LET user == CHOOSE u \in result.val : TRUE
             IN  Handled(Found("/dashboard"),
                         login_user(state, SessionUser_from(user)), TRUE)
        ELSE IF result.tag = "Ok"
        THEN Handled(Page("auth/login.html.tera",
                          <<"Invalid email or password">>, {}),
                     clear(state), TRUE)
        ELSE Handled(Page("auth/login.html.tera",
                          <<"Login error: " \o result.err>>, {}),
                     clear(state), TRUE)

\* login_submit takes no extractor: it reads the form and the table only.
login_submit(rows, state, form, dbFault) ==
    LET result == authenticate_user(rows, form.email, form.password, dbFault)
    IN  IF result.tag = "Ok" /\ result.val # {}
        THEN LET user == CHOOSE u \in result.val : TRUE
             IN  Handled(Found("/dashboard"),
                         login_user(state, SessionUser_from(user)), TRUE)
        ELSE IF result.tag = "Ok"
        THEN Handled(Page("auth/login.html.tera",
                          <<"Invalid email or password">>, {}), state, FALSE)
        ELSE Handled(Page("auth/login.html.tera",
                          <<"Login error: " \o result.err>>, {}), state, FALSE)

logout(state) ==
    Handled(Found("/login?msg=logged_out"), clear(state), TRUE)

dashboard_page(state) ==
    IF AuthUser(state).tag = "Err"
    THEN Handled(ErrorUnauthorized(AuthUser(state).err), state, FALSE)
    ELSE Handled(Page("dashboard-simple.html.tera", <<>>, AuthUser(state).val),
                 state, FALSE)

profile_page(state) ==
    IF AuthUser(state).tag = "Err"
    THEN Handled(ErrorUnauthorized(AuthUser(state).err), state, FALSE)
    ELSE Handled(Page("auth/profile.html.tera", <<>>, AuthUser(state).val),
                 state, FALSE)

index(state) ==
    Handled(Page("index.html.tera", <<>>, OptionalAuthUser(state).val),
            state, FALSE)

\* register_submit, cut at its await points: the responses of its arms.
register_invalid(errors) ==
    Page("auth/register-simple.html.tera", errors, {})

register_email_taken ==
    Page("auth/register-simple.html.tera",
         <<"Email address is already registered">>, {})

register_username_taken ==
    Page("auth/register-simple.html.tera", <<"Username is already taken">>, {})

register_db_error(e) ==
    Page("auth/register-simple.html.tera", <<"Database error: " \o e>>, {})

register_failed(e) ==
    Page("auth/register-simple.html.tera", <<"Registration failed: " \o e>>, {})

register_created ==
    Found("/login?msg=registration_success")

(***************************************************************************)
(* The state machine.  One browser sends the requests; with each it        *)
(* presents the cookie of its jar, the cookie it last logged out with,     *)
(* no cookie, or bytes that are no cookie.         The server keeps no    *)
(* state per client, so one browser stands for all of them.                *)
(*                                                                         *)
(* Spec answers every request in one step (its reads and its one write of  *)
(* the table happen in program order) within one run of the process.       *)
(* SpecRestart adds restarts of the process.  SpecRace runs POST /register *)
(* in request slots that interleave at the handler's three await points.   *)
(* SpecValidate dispatches registration forms of every shape.              *)
(***************************************************************************)
Slots == 1..MaxRequests

ValidForms ==
    { RegisterForm(E_a, U_abc, P_secret, P_secret, None, None),
      RegisterForm(E_a, U_ee, P_secret, P_secret, Some(N_first), Some(N_last)),
      RegisterForm(E_b, U_abc, P_hunter, P_hunter, Some(N_first), None),
      RegisterForm(E_b, U_ee, P_hunter, P_hunter, None, Some(N_last)) }

RegForms ==
    ValidForms \cup
        { RegisterForm(E_noat, U_ab, P_abc, P_secret, None, None) }

AllForms ==
    { RegisterForm(e, u, p, pc, None, None) :
        e \in {<<>>, E_noat, E_at, E_a},
        u \in {<<>>, U_e, U_ab, U_ee, U_abc},
        p \in {<<>>, P_abc, P_eee, P_secret, P_hunter},
        pc \in {<<>>, P_abc, P_eee, P_secret, P_hunter} }

LoginForms ==
    { LoginForm(E_a, P_secret), LoginForm(E_a, P_hunter),
      LoginForm(E_b, P_hunter), LoginForm(E_c, P_secret) }

BlankForm ==
    RegisterForm(<<>>, <<>>, <<>>, <<>>, None, None)

NoResp ==
    [status |-> 0, location |-> "", template |-> "", errors |-> <<>>,
     user |-> {}]

\* The storage or hashing call of a request that fails, if one does.
Calm ==
    [at |-> "", err |-> NoFault]

FaultsAt(calls, errors) ==
    {Calm} \cup { [at |-> c, err |-> e] : c \in calls, e \in errors }

RegisterFaults ==
    FaultsAt({"email_exists", "username_exists", "insert"}, DbErrors)
        \cup FaultsAt({"hash"}, HashErrors)

FaultAt(fault, call) ==
    IF fault.at = call THEN fault.err ELSE NoFault

\* register_submit from dispatch to response: the response, the table and
\* the call that failed.
Registered(resp, rows, fault) ==
    [resp |-> resp, rows |-> rows, fault |-> fault]

register_submit(rows, form, fault) ==
    LET email == email_exists(rows, form.email, FaultAt(fault, "email_exists"))
        username == username_exists(rows, form.username,
                                    FaultAt(fault, "username_exists"))
        created == create_user(rows, form, FaultAt(fault, "hash"),
                               FaultAt(fault, "insert"))
    IN  IF validate(form) # <<>>
        THEN Registered(register_invalid(validate(form)), rows, Calm)
        ELSE IF email.tag = "Err"
        THEN Registered(register_db_error(email.err), rows, fault)
        ELSE IF email.val
        THEN Registered(register_email_taken, rows, Calm)
        ELSE IF username.tag = "Err"
        THEN Registered(register_db_error(username.err), rows, fault)
        ELSE IF username.val
        THEN Registered(register_username_taken, rows, Calm)
        ELSE IF created.tag = "Err"
        THEN Registered(register_failed(created.err), rows, fault)
        ELSE Registered(register_created, created.val, Calm)

\* A slot: pc is the await point the request stands at; at is the step that
\* answered it; created records that its INSERT added a row; fault is the
\* storage or hashing failure that its last step met; peers are the slots
\* that were in flight while it was.
Idle ==
    [pc |-> "idle", form |-> BlankForm, at |-> "", resp |-> NoResp,
     created |-> FALSE, fault |-> NoFault, peers |-> {}]

\* A table found at start-up: empty, or holding a deactivated account.
OldRow ==
    [User_new(1, E_b, U_bob, hash(P_hunter, DEFAULT_COST, 1))
        EXCEPT !.is_active = FALSE]

\* The last request answered: op, the cookie it presented, whether that
\* cookie resolved to an identity (authed), the form and the failing
\* call, the response, whether the handler wrote the session (changed),
\* whether a row was inserted (created), whether a registration form passed
\* validation (valid) and whether its email was held by a row with another
\* username when it arrived (held).
NoRequest ==
    [op |-> "", cookie |-> NoCookie, authed |-> FALSE,
     form |-> LoginForm(<<>>, <<>>), fault |-> Calm, resp |-> NoResp,
     changed |-> FALSE, created |-> FALSE, valid |-> FALSE, held |-> FALSE]

Init ==
    /\ store \in {{}, {OldRow}}
    /\ key = 1
    /\ jar = NoCookie
    /\ revoked = NoCookie
    /\ req = [r \in Slots |-> Idle]
    /\ last = NoRequest

Sources == {"jar", "revoked", "none", "garbage"}

Cookie(source) ==
    IF source = "jar" THEN jar
    ELSE IF source = "revoked" THEN revoked
    ELSE IF source = "none" THEN NoCookie
    ELSE Garbage

\* The session the middleware hands to the handler of a request.
Session(source) ==
    LoadSession(Cookie(source), key)

\* The middleware around a handler: the browser stores the cookie of the
\* response when the handler wrote the session.
Answer(op, source, form, fault, out) ==
    /\ jar' = IF out.changed THEN Seal(key, out.session) ELSE jar
    /\ last' = [NoRequest EXCEPT
                    !.op = op, !.cookie = Cookie(source),
                    !.authed = Identity(Session(source)) # {},
                    !.form = form, !.fault = fault, !.resp = out.resp,
                    !.changed = out.changed]
    /\ UNCHANGED <<store, key, req>>

GetIndex ==
    \E source \in Sources :
        /\ Answer("index", source, NoRequest.form, Calm, index(Session(source)))
        /\ UNCHANGED revoked

GetLogin ==
    \E source \in Sources :
        /\ Answer("login_page", source, NoRequest.form, Calm,
                  login_page(Session(source)))
        /\ UNCHANGED revoked

GetRegister ==
    \E source \in Sources :
        /\ Answer("register_page", source, NoRequest.form, Calm,
                  register_page(Session(source)))
        /\ UNCHANGED revoked

PostLogin ==
    \E source \in {"jar", "none"}, form \in LoginForms,
       fault \in FaultsAt({"authenticate_user"}, DbErrors) :
        /\ Answer("login_submit", source, form, fault,
                  login_submit(store, Session(source), form,
                               FaultAt(fault, "authenticate_user")))
        /\ UNCHANGED revoked

PostLogout ==
    \E source \in Sources :
        /\ Answer("logout", source, NoRequest.form, Calm,
                  logout(Session(source)))
        /\ revoked' = IF Identity(Session(source)) # {} THEN Cookie(source)
                       ELSE revoked

GetDashboard ==
    \E source \in Sources :
        /\ Answer("dashboard_page", source, NoRequest.form, Calm,
                  dashboard_page(Session(source)))
        /\ UNCHANGED revoked

GetProfile ==
    \E source \in Sources :
        /\ Answer("profile_page", source, NoRequest.form, Calm,
                  profile_page(Session(source)))
        /\ UNCHANGED revoked

\* A POST /register that logs the new user in when it has created the row.
PostRegister_auto_login ==
    \E source \in {"jar", "none"}, form \in RegForms,
       fault \in RegisterFaults :
        LET out == register_submit(store, form, fault)
        IN  /\ out.fault = fault
            /\ store' = out.rows
            /\ jar' = IF out.rows # store
                      THEN Seal(key, login_user(Session(source),
                                   SessionUser_from(
                                       CHOOSE u \in out.rows \ store : TRUE)))
                      ELSE jar
            /\ last' = [NoRequest EXCEPT
                          !.op = "register_submit",
                          !.cookie = Cookie(source),
                          !.authed = Identity(Session(source)) # {},
                          !.fault = fault, !.resp = out.resp,
                          !.changed = out.rows # store,
                          !.created = out.rows # store,
                          !.valid = validate(form) = <<>>,
                          !.held = \E u \in store :
                                      /\ u.email = form.email
                                      /\ u.username # form.username]
            /\ UNCHANGED <<key, revoked, req>>

\* POST /register answered in one step.  The handler takes no session.
PostRegister ==
    \E source \in {"jar", "none"}, form \in RegForms,
       fault \in RegisterFaults :
        LET out == register_submit(store, form, fault)
        IN  /\ out.fault = fault
            /\ store' = out.rows
            /\ last' = [NoRequest EXCEPT
                          !.op = "register_submit",
                          !.cookie = Cookie(source),
                          !.authed = Identity(Session(source)) # {},
                          !.fault = fault, !.resp = out.resp,
                          !.created = out.rows # store,
                          !.valid = validate(form) = <<>>,
                          !.held = \E u \in store :
                                      /\ u.email = form.email
                                      /\ u.username # form.username]
            /\ UNCHANGED <<key, jar, revoked, req>>

\* The process stops and starts again: main generates a new key; the table
\* file stays.
Restart ==
    /\ key <= MaxRestarts
    /\ key' = key + 1
    /\ UNCHANGED <<store, jar, revoked, req, last>>

Next ==
    \/ GetIndex
    \/ GetLogin
    \/ PostLogin
    \/ GetRegister
    \/ PostRegister
    \/ PostLogout
    \/ GetDashboard
    \/ GetProfile

Spec ==
    Init /\ [][Next]_vars

\* The same server across restarts of the process.
NextRestart ==
    \/ PostLogin
    \/ PostRegister
    \/ PostLogout
    \/ GetDashboard
    \/ Restart

SpecRestart ==
    Init /\ [][NextRestart]_vars

(***************************************************************************)
(* POST /register in slots, one action per await point.                    *)
(***************************************************************************)
Finish(r, at, resp, created, fault) ==
    req' = [req EXCEPT ![r] = [@ EXCEPT !.pc = "done", !.at = at,
                                        !.resp = resp, !.created = created,
                                        !.fault = fault]]

\* register_submit up to its first await: validation.
Dispatch(form) ==
    IF validate(form) # <<>>
    THEN [Idle EXCEPT !.form = form, !.pc = "done", !.at = "validate",
                      !.resp = register_invalid(validate(form))]
    ELSE [Idle EXCEPT !.form = form, !.pc = "email_exists"]

InFlight(s) ==
    req[s].pc \notin {"idle", "done"}

RegisterDispatch(slots, forms) ==
    \E r \in slots, form \in forms :
        /\ req[r].pc = "idle"
        /\ req' = [s \in Slots |->
                     IF s = r
                     THEN [Dispatch(form) EXCEPT
                             !.peers = IF validate(form) = <<>>
                                       THEN {q \in Slots : InFlight(q)}
                                       ELSE {}]
                     ELSE IF InFlight(s) /\ validate(form) = <<>>
                     THEN [req[s] EXCEPT !.peers = @ \cup {r}]
                     ELSE req[s]]
        /\ UNCHANGED <<store, key, jar, revoked, last>>

RegisterEmailExists ==
    \E r \in Slots, fault \in {NoFault} \cup DbErrors :
        /\ req[r].pc = "email_exists"
        /\ LET result == email_exists(store, req[r].form.email, fault)
           IN  IF result.tag = "Err"
               THEN Finish(r, "email_exists", register_db_error(result.err),
                           FALSE, fault)
               ELSE IF result.val
               THEN Finish(r, "email_exists", register_email_taken, FALSE,
                           fault)
               ELSE req' = [req EXCEPT ![r].pc = "username_exists"]
        /\ UNCHANGED <<store, key, jar, revoked, last>>

RegisterUsernameExists ==
    \E r \in Slots, fault \in {NoFault} \cup DbErrors :
        /\ req[r].pc = "username_exists"
        /\ LET result == username_exists(store, req[r].form.username, fault)
           IN  IF result.tag = "Err"
               THEN Finish(r, "username_exists", register_db_error(result.err),
                           FALSE, fault)
               ELSE IF result.val
               THEN Finish(r, "username_exists", register_username_taken,
                           FALSE, fault)
               ELSE req' = [req EXCEPT ![r].pc = "create_user"]
        /\ UNCHANGED <<store, key, jar, revoked, last>>

RegisterCreateUser ==
    \E r \in Slots, hashFault \in {NoFault} \cup HashErrors,
       dbFault \in {NoFault} \cup DbErrors :
        /\ req[r].pc = "create_user"
        /\ LET result == create_user(store, req[r].form, hashFault, dbFault)
           IN  IF result.tag = "Ok"
               THEN /\ store' = result.val
                    /\ Finish(r, "create_user", register_created,
                              result.val # store, NoFault)
               ELSE /\ store' = store
                    /\ Finish(r, "create_user", register_failed(result.err),
                              FALSE,
                              IF hashFault # NoFault THEN hashFault
                              ELSE dbFault)
        /\ UNCHANGED <<key, jar, revoked, last>>

NextRace ==
    \/ RegisterDispatch(Slots, RegForms)
    \/ RegisterEmailExists
    \/ RegisterUsernameExists
    \/ RegisterCreateUser

SpecRace ==
    Init /\ [][NextRace]_vars

NextValidate ==
    RegisterDispatch({1}, AllForms)

SpecValidate ==
    Init /\ [][NextValidate]_vars

(***************************************************************************)
(* Properties.                                                             *)
(***************************************************************************)
\* The rows that POST /register inserted in this run, and the identity that
\* the browser's cookie resolves to.
Registered_rows ==
    store \ {OldRow}

Resolved ==
    Identity(LoadSession(jar, key))

LoginMatches(u) ==
    /\ u.email = last.form.email
    /\ verify(last.form.password, u.password_hash)

LoggedInAs(u) ==
    /\ last.resp = Found("/dashboard")
    /\ \E i \in Resolved : i.id = u.id /\ i.username = u.username
    /\ Cardinality(Resolved) = 1

\* C1, as claimed: every POST /login with the email and password of an
\* accepted registration succeeds (redirect to /dashboard) and the session it
\* issues resolves to the id and username of the row that registration made.
C1_LoginAfterRegisterSucceeds ==
    last.op = "login_submit" =>
        \A u \in Registered_rows : LoginMatches(u) => LoggedInAs(u)

\* C1, amended: a POST /login with the email and password of an accepted
\* registration, during which the credential store does not fail, succeeds
\* and its session resolves to the id and username of the registered row; when
\* the store fails the login form comes back and no session is issued.
C1_LoginAfterRegisterSucceedsUnlessStoreFails ==
    last.op = "login_submit" =>
        \A u \in Registered_rows :
            LoginMatches(u) =>
                IF last.fault = Calm THEN LoggedInAs(u)
                ELSE /\ last.resp.status = 200
                     /\ last.resp.template = "auth/login.html.tera"
                     /\ ~last.changed

C1_Witness ==
    /\ last.op = "login_submit"
    /\ last.fault = Calm
    /\ Cardinality(Registered_rows) = 2
    /\ \E u \in Registered_rows : LoginMatches(u) /\ LoggedInAs(u) /\ u.id = 2

\* C2, as claimed: a cookie that a processed POST /logout found to hold an
\* identity resolves to no identity when it is presented again in the same
\* run of the process: the protected pages answer 401 and the pages that take
\* the optional identity see none.
C2_ReplayAfterLogoutResolvesNothing ==
    (/\ last.cookie = revoked
     /\ revoked.kind = "sealed"
     /\ revoked.key = key
     /\ Identity(revoked.state) # {})
    => /\ last.op \in {"dashboard_page", "profile_page"}
            => last.resp.status = 401
       /\ last.op = "index" => last.resp.user = {}
       /\ last.op \in {"login_page", "register_page"}
            => last.resp.status = 200

\* Two answered POST /register with valid fields and the same email or the
\* same username that were in flight together.
Overlapped(r, s) ==
    /\ r # s
    /\ s \in req[r].peers
    /\ req[r].pc = "done" /\ req[s].pc = "done"
    /\ \/ req[r].form.email = req[s].form.email
       \/ req[r].form.username = req[s].form.username

\* Two such requests that both passed the two existence checks: each was
\* answered by its INSERT.
Raced(r, s) ==
    /\ Overlapped(r, s)
    /\ req[r].at = "create_user"
    /\ req[s].at = "create_user"

Won(r) ==
    req[r].created /\ req[r].resp = register_created

Lost(r) ==
    /\ ~req[r].created
    /\ req[r].resp.status = 200
    /\ req[r].resp.template = "auth/register-simple.html.tera"
    /\ req[r].resp.errors # <<>>

Collides(form) ==
    \E u \in store : u.email = form.email \/ u.username = form.username

\* C3, as claimed: of two concurrent POST /register with the same email or
\* username that both pass the existence checks, exactly one creates a user
\* and is redirected to login with the success indicator, and the other ends
\* with a failure outcome and creates no row.
C3_ExactlyOneRacerWins ==
    \A r, s \in Slots :
        Raced(r, s) => \/ Won(r) /\ Lost(s)
                       \/ Won(s) /\ Lost(r)

\* C3, amended: of two concurrent POST /register with valid fields and the
\* same email or username, in every interleaving of their existence checks
\* and inserts, at most one creates a user; each either creates a user and is
\* redirected to login with the success indicator, or ends with a failure
\* outcome and creates no row; and one that fails without a storage or
\* hashing failure of its own finds its email or username held by a row of
\* the table.
C3_AtMostOneRacerWins ==
    \A r, s \in Slots :
        Overlapped(r, s) =>
            /\ ~(Won(r) /\ Won(s))
            /\ Won(r) \/ Lost(r)
            /\ (Lost(r) /\ req[r].fault = NoFault) => Collides(req[r].form)

C3_Witness ==
    \E r, s \in Slots :
        /\ Raced(r, s)
        /\ req[r].form.email = req[s].form.email
        /\ Won(r) /\ Lost(s) /\ req[s].fault = NoFault

\* C4: no two distinct rows of the table share an email and no two share a
\* username, whether active or not.
C4_EmailAndUsernameUnique ==
    \A u, v \in store :
        u # v => u.email # v.email /\ u.username # v.username

C4_Witness ==
    /\ \E u, v \in store : u # v /\ ~u.is_active /\ v.is_active
    /\ \E r \in Slots :
          /\ req[r].pc = "done" /\ req[r].at = "create_user"
          /\ ~req[r].created /\ req[r].fault = NoFault

\* C5, as claimed: a POST /register with valid fields whose email a row with
\* another username already holds is answered with the form and the
\* already-registered error, not a redirect, and inserts no row.
C5_DuplicateEmailConflict ==
    (last.op = "register_submit" /\ last.valid /\ last.held) =>
        /\ last.resp = register_email_taken
        /\ ~last.created

\* C5, amended: such a request inserts no row and is answered with the form,
\* not a redirect; the form carries the already-registered error unless the
\* existence query itself fails, and then it carries the database error.
C5_DuplicateEmailNeverCreates ==
    (last.op = "register_submit" /\ last.valid /\ last.held) =>
        /\ ~last.created
        /\ last.resp.status = 200
        /\ last.resp.template = "auth/register-simple.html.tera"
        /\ IF last.fault = Calm THEN last.resp = register_email_taken
           ELSE /\ last.fault.at = "email_exists"
                /\ last.resp = register_db_error(last.fault.err)

C5_Witness ==
    /\ last.op = "register_submit" /\ last.valid /\ last.held
    /\ last.resp = register_email_taken
    /\ \E u \in store : u.email = E_a /\ u.username = U_abc
    /\ \A u \in store : u.username # U_ee

\* The identity that the running process reads from a cookie, if any.
Decoded(cookie) ==
    IF cookie.kind = "sealed" /\ cookie.key = key
    THEN UNION { from_str(e[2]) : e \in {x \in cookie.state : x[1] = "user"} }
    ELSE {}

\* C6: a GET /dashboard or GET /profile whose cookie is absent, is no sealed
\* value of the running key or holds no user entry that parses is answered
\* 401 without a page; a page is rendered only for a cookie that resolves to
\* an identity, and shows that identity.
C6_ProtectedNeedsIdentity ==
    last.op \in {"dashboard_page", "profile_page"} =>
        /\ Decoded(last.cookie) = {}
            => last.resp = ErrorUnauthorized("Not authenticated")
        /\ last.resp.status # 401
            => /\ Decoded(last.cookie) # {}
               /\ last.resp.status = 200
               /\ last.resp.user = Decoded(last.cookie)

C6_Witness ==
    /\ last.op = "profile_page"
    /\ last.cookie = Garbage
    /\ last.resp.status = 401
    /\ Resolved # {}

\* C7, as claimed: a GET or POST on /login or /register that carries a session
\* resolving to an identity is answered by a redirect to /dashboard and
\* writes neither the session nor the table.
C7_AuthenticatedVisitorRedirected ==
    (/\ last.op \in {"login_page", "login_submit", "register_page",
                     "register_submit"}
     /\ last.authed)
    => /\ last.resp = Found("/dashboard")
       /\ ~last.changed
       /\ ~last.created

\* The passwords that login attempts are drawn from.
Passwords ==
    {P_secret, P_hunter, P_abc}

\* C8: in every table, under the same behaviour of the store, a POST /login
\* with the email of a row and a password that row does not verify gets the
\* response and the session that a POST /login with an email of no row gets,
\* and authenticate_user returns the same value for both: Ok(None) when the
\* store answers.
C8_NoEnumerationSignal ==
    \A known \in {u.email : u \in store}, unknown \in {E_a, E_b, E_c},
       p \in Passwords, q \in Passwords, fault \in {NoFault} \cup DbErrors,
       state \in {EmptyState, LoadSession(jar, key)} :
        (/\ \A u \in store : u.email # unknown
         /\ \A u \in store : u.email = known => ~verify(p, u.password_hash))
        => /\ login_submit(store, state, LoginForm(known, p), fault)
                = login_submit(store, state, LoginForm(unknown, q), fault)
           /\ authenticate_user(store, known, p, fault)
                = authenticate_user(store, unknown, q, fault)
           /\ fault = NoFault => authenticate_user(store, known, p, fault)
                                    = Ok({})

C8_Witness ==
    /\ last.op = "login_submit"
    /\ last.fault = Calm
    /\ \E u \in store : /\ u.email = last.form.email
                        /\ u.is_active
                        /\ ~verify(last.form.password, u.password_hash)
    /\ last.resp = Page("auth/login.html.tera",
                        <<"Invalid email or password">>, {})
    /\ Resolved # {}

\* C9 and C10 read the requests that validation has answered or let pass.
Dispatched(r) ==
    req[r].pc # "idle"

Occurrences(seq, x) ==
    Cardinality({i \in 1..Len(seq) : seq[i] = x})

Rejected(form) ==
    Cardinality({f \in {"email", "username", "password"} :
        \/ f = "email" /\ (form.email = <<>> \/ ~contains(form.email, "@"))
        \/ f = "username" /\ ByteLen(form.username) < 3
        \/ f = "password" /\ ByteLen(form.password) < 6})

\* C9, as claimed: when password differs from password_confirm, validation
\* fails and reports exactly one entry, the password mismatch, whatever the
\* other fields are.
C9_MismatchReportedAlone ==
    \A r \in Slots :
        (Dispatched(r) /\ req[r].form.password # req[r].form.password_confirm)
        => /\ req[r].at = "validate"
           /\ req[r].resp.errors = <<M_Mismatch>>

\* C9, amended: when password differs from password_confirm, validation fails
\* and its list holds the password mismatch exactly once, after one entry for
\* each of email, username and password that fails its own check; the
\* mismatch is the only entry when those three pass.
C9_MismatchReportedOnce ==
    \A r \in Slots :
        (Dispatched(r) /\ req[r].form.password # req[r].form.password_confirm)
        => /\ req[r].pc = "done" /\ req[r].at = "validate"
           /\ req[r].resp.template = "auth/register-simple.html.tera"
           /\ Occurrences(req[r].resp.errors, M_Mismatch) = 1
           /\ req[r].resp.errors[Len(req[r].resp.errors)] = M_Mismatch
           /\ Len(req[r].resp.errors) = Rejected(req[r].form) + 1

C9_Witness ==
    \E r \in Slots :
        /\ Dispatched(r)
        /\ req[r].form.password = P_secret
        /\ req[r].form.password_confirm = P_hunter
        /\ req[r].form.email = E_noat
        /\ req[r].form.username = U_abc
        /\ req[r].resp.errors = <<M_EmailInvalid, M_Mismatch>>

\* The number of the four constraints, counted in characters, that a form
\* violates.
Violated(form) ==
    Cardinality({f \in {"email", "username", "password", "confirm"} :
        \/ f = "email" /\ (form.email = <<>> \/ ~contains(form.email, "@"))
        \/ f = "username" /\ CharCount(form.username) < 3
        \/ f = "password" /\ CharCount(form.password) < 6
        \/ f = "confirm" /\ form.password # form.password_confirm})

\* C10, as claimed: validation passes exactly when email is non-empty and
\* contains '@', username has at least 3 characters, password has at least 6
\* characters and password equals password_confirm; otherwise its list holds
\* one message for every one of the four constraints that is violated.
C10_ValidIffFourConstraints ==
    \A r \in Slots :
        Dispatched(r) =>
            IF Violated(req[r].form) = 0 THEN req[r].pc = "email_exists"
            ELSE /\ req[r].pc = "done" /\ req[r].at = "validate"
                 /\ Len(req[r].resp.errors) = Violated(req[r].form)

\* C11: POST /logout, for every cookie a request can present, answers with
\* the redirect to the login page and leaves the empty session, whether the
\* session held an identity or not; a second logout on the session the first
\* one left gives the same response and the same session; and after a POST
\* /logout the browser's session resolves to no identity.
C11_LogoutClearsAndIsIdempotent ==
    /\ \A source \in Sources :
          LET once == logout(Session(source))
              twice == logout(once.session)
          IN  /\ once.resp = Found("/login?msg=logged_out")
              /\ once.session = EmptyState
              /\ Identity(once.session) = {}
              /\ twice.resp = once.resp
              /\ twice.session = once.session
    /\ last.op = "logout" =>
          /\ last.resp = Found("/login?msg=logged_out")
          /\ Resolved = {}
          /\ AuthUser(LoadSession(jar, key)).tag = "Err"
          /\ OptionalAuthUser(LoadSession(jar, key)) = Ok({})

C11_Witness ==
    /\ last.op = "logout"
    /\ ~last.authed
    /\ last.cookie = Seal(key, EmptyState)
    /\ revoked # NoCookie
    /\ last.resp = Found("/login?msg=logged_out")
    /\ jar = Seal(key, EmptyState)

\* C12: a POST /register leaves the browser's cookie, and with it the identity
\* the session resolves to, as it was before the request, in every outcome of
\* the request; it creates a row exactly when it answers with the redirect to
\* the login page with the success indicator; and an anonymous registrant is
\* anonymous afterwards.
C12_RegisterLeavesSession ==
    [][last'.op = "register_submit" =>
          /\ jar' = jar
          /\ Identity(LoadSession(jar', key')) = Identity(LoadSession(jar, key))
          /\ ~last'.changed
          /\ last'.created <=>
                last'.resp = Found("/login?msg=registration_success")
          /\ last'.created <=> store' # store
          /\ last'.resp.status = 200 => last'.resp.errors # <<>>
          /\ ~last'.authed =>
                Identity(LoadSession(last'.cookie, key')) = {}]_vars

C12_Witness ==
    /\ last.op = "register_submit"
    /\ last.created
    /\ ~last.authed
    /\ last.resp = register_created
    /\ Resolved = {}
    /\ Cardinality(Registered_rows) = 1

\* The failures the credential store and the hashing layer can report.
InfrastructureErrors ==
    DbErrors \cup HashErrors

\* C13, as claimed: a POST /login or POST /register during which the store or
\* the hashing layer fails is answered with the re-rendered form and one
\* failure message, and that answer is the one the request would get for any
\* other infrastructure failure: the message carries nothing of the error.
C13_FailureMessageIsGeneric ==
    /\ (last.op = "login_submit" /\ last.fault # Calm) =>
          /\ last.resp.status = 200
          /\ last.resp.template = "auth/login.html.tera"
          /\ Len(last.resp.errors) = 1
          /\ \A e \in InfrastructureErrors :
                last.resp = login_submit(store, LoadSession(last.cookie, key),
                                         last.form, e).resp
    /\ (last.op = "register_submit" /\ last.fault # Calm) =>
          /\ last.resp.status = 200
          /\ last.resp.template = "auth/register-simple.html.tera"
          /\ Len(last.resp.errors) = 1
          /\ \A e \in InfrastructureErrors :
                last.resp \in {register_db_error(e), register_failed(e)}

\* C14: the key changes only when the process starts, and then to a key no
\* earlier run had; no cookie is sealed under a key later than the running
\* one; a GET /dashboard presenting a cookie sealed under an earlier key is
\* answered 401 whatever identity it holds, and one presenting a cookie sealed
\* under the running key that holds an identity is answered with the page of
\* that identity; the browser's cookie resolves to no identity while it is
\* sealed under an earlier key.
C14_RestartInvalidatesSessions ==
    [][/\ key' # key => key' > key /\ jar' = jar /\ store' = store
       /\ \A c \in {jar', revoked', last'.cookie} :
             c.kind = "sealed" => c.key <= key'
       /\ (jar'.kind = "sealed" /\ jar'.key # key') =>
             Identity(LoadSession(jar', key')) = {}
       /\ (key' = key /\ last'.op = "dashboard_page"
                      /\ last'.cookie.kind = "sealed") =>
             IF last'.cookie.key # key'
             THEN last'.resp = ErrorUnauthorized("Not authenticated")
             ELSE Identity(last'.cookie.state) # {} =>
                     /\ last'.resp.status = 200
                     /\ last'.resp.user = Identity(last'.cookie.state)]_vars

C14_Witness ==
    /\ key = 2
    /\ last.op = "dashboard_page"
    /\ last.cookie = revoked
    /\ revoked.kind = "sealed" /\ revoked.key = 1
    /\ Identity(revoked.state) # {}
    /\ last.resp.status = 401
    /\ jar.kind = "sealed" /\ jar.key = 2
    /\ Resolved # {}

\* C15: after a POST /login that succeeds, whatever identity the presented
\* session held, the session holds one user entry and the identity resolved
\* from it is the projection of the row of the submitted email, equal to it in
\* id, email, username, display name and avatar.
C15_LoginReplacesIdentity ==
    (last.op = "login_submit" /\ last.resp = Found("/dashboard")) =>
        /\ last.changed
        /\ jar.kind = "sealed" /\ jar.key = key
        /\ Cardinality({e \in jar.state : e[1] = "user"}) = 1
        /\ \E u \in store :
              /\ u.email = last.form.email
              /\ Resolved = {SessionUser_from(u)}
              /\ \A i \in Resolved :
                    /\ i.id = u.id /\ i.email = u.email
                    /\ i.username = u.username
                    /\ i.full_name = full_name(u)
                    /\ i.avatar_url = u.avatar_url

C15_Witness ==
    /\ last.op = "login_submit"
    /\ last.resp = Found("/dashboard")
    /\ last.authed
    /\ \E a \in Identity(LoadSession(last.cookie, key)), b \in Resolved :
          /\ a.id # b.id /\ a.email # b.email /\ a.username # b.username
          /\ a.full_name # b.full_name
          /\ b.email = last.form.email

\* C16: for every row of the table, with its first and last name present or
\* absent, the display name of its projection is the first name, a space and
\* the last name when both are present, the first name when only it is
\* present, the last name when only it is present and the username when
\* neither is; and the display name of the identity a session resolves to is
\* the one derived so from its row.
C16_DisplayNamePrecedence ==
    /\ \A u \in store :
          LET shown == SessionUser_from(u).full_name
          IN  /\ (u.first_name.some /\ u.last_name.some) =>
                    shown = u.first_name.val \o <<" ">> \o u.last_name.val
              /\ (u.first_name.some /\ ~u.last_name.some) =>
                    shown = u.first_name.val
              /\ (~u.first_name.some /\ u.last_name.some) =>
                    shown = u.last_name.val
              /\ (~u.first_name.some /\ ~u.last_name.some) =>
                    shown = u.username
    /\ \A i \in Resolved :
          \E u \in store :
              u.id = i.id /\ i.full_name = SessionUser_from(u).full_name

C16_Witness ==
    /\ \E u \in store : ~u.first_name.some /\ ~u.last_name.some
    /\ \E u \in store :
          /\ ~u.first_name.some /\ u.last_name.some
          /\ Resolved = {SessionUser_from(u)}
          /\ \A i \in Resolved :
                i.full_name = N_last /\ i.full_name # u.username
    /\ last.op = "login_submit"

\* C17: every step keeps every row of the table as it is, with its id, email,
\* username and password hash; a step changes the table only by adding the
\* one row of a POST /register; and the steps that answer a POST /login, a
\* POST /logout or a GET leave the table unchanged.
C17_RowsAreNeverChanged ==
    [][/\ \A u \in store :
             \E v \in store' :
                 /\ v.id = u.id /\ v.email = u.email
                 /\ v.username = u.username
                 /\ v.password_hash = u.password_hash
                 /\ v = u
       /\ store' # store =>
             /\ last'.op = "register_submit" /\ last'.created
             /\ Cardinality(store' \ store) = 1
       /\ last'.op # "register_submit" => store' = store]_vars

C17_Witness ==
    /\ OldRow \in store
    /\ Cardinality(store) = 2
    /\ last.op = "logout"
    /\ last.authed
    /\ \E u \in Registered_rows :
          \E i \in Identity(LoadSession(last.cookie, key)) : i.id = u.id

\* C18: a step that answers a POST /login with anything but the redirect to
\* /dashboard (no match, or a storage error) writes no session: the browser's
\* cookie and the identity it resolves to are what they were, so an anonymous
\* requester stays anonymous and an identified one keeps its identity; a POST
\* /login writes the session only when an active row of the submitted email
\* verifies the submitted password.
C18_FailedLoginLeavesSession ==
    [][last'.op = "login_submit" =>
          /\ last'.resp # Found("/dashboard") =>
                /\ ~last'.changed
                /\ jar' = jar
                /\ Identity(LoadSession(jar', key'))
                      = Identity(LoadSession(jar, key))
                /\ last'.resp.status = 200
                /\ last'.resp.template = "auth/login.html.tera"
          /\ (last'.changed \/ jar' # jar) =>
                /\ last'.resp = Found("/dashboard")
                /\ last'.fault = Calm
                /\ \E u \in store :
                      /\ u.email = last'.form.email /\ u.is_active
                      /\ verify(last'.form.password, u.password_hash)]_vars

C18_Witness ==
    /\ last.op = "login_submit"
    /\ last.authed
    /\ last.cookie = jar
    /\ last.fault # Calm
    /\ last.resp.status = 200
    /\ Resolved # {}
    /\ \E u \in store : LoginMatches(u)

\* The session states the two extractors are compared on: what the middleware
\* loads from each cookie a request can present, and sessions whose user
\* entry is missing, is not the JSON of a SessionUser or stands beside
\* other entries.
TokenStates ==
    { Session(source) : source \in Sources }
        \cup { LoadSession(last.cookie, key) }
        \cup { {<<"flash", {}>>},
               {<<"user", {}>>},
               {<<"user", {<<"id", 1>>, <<"email", E_a>>}>>},
               {<<"user", to_string(SessionUser_from(OldRow))>>,
                <<"flash", {}>>} }

\* C19: on every session state, OptionalAuthUser never rejects; AuthUser
\* accepts with identity u exactly when OptionalAuthUser yields u, and rejects,
\* with 401 Not authenticated, exactly when OptionalAuthUser yields none; and
\* so a protected page is shown exactly for the sessions for which the index
\* page sees an identity, the same one.
C19_ExtractorsAgree ==
    \A state \in TokenStates :
        LET required == AuthUser(state)
            optional == OptionalAuthUser(state)
        IN  /\ optional.tag = "Ok"
            /\ required.tag \in {"Ok", "Err"}
            /\ required.tag = "Ok" =>
                  required.val # {} /\ optional.val = required.val
            /\ optional.val # {} =>
                  required.tag = "Ok" /\ required.val = optional.val
            /\ required.tag = "Err" <=> optional.val = {}
            /\ required.tag = "Err" => required.err = "Not authenticated"
            /\ dashboard_page(state).resp.status = 401
                  <=> index(state).resp.user = {}
            /\ dashboard_page(state).resp.status # 401 =>
                  dashboard_page(state).resp.user = index(state).resp.user

C19_Witness ==
    /\ last.op = "index"
    /\ last.authed
    /\ last.resp.user # {}
    /\ last.resp.user = AuthUser(LoadSession(last.cookie, key)).val
    /\ last.cookie = revoked
    /\ Resolved = {}
    /\ AuthUser(LoadSession(jar, key)).tag = "Err"
    /\ OptionalAuthUser(LoadSession(jar, key)) = Ok({})

\* C20, as claimed: a POST /register whose fields fail validation is answered
\* with the validation messages without any call on the store and inserts
\* nothing; and every row of the table has an email that contains '@' and a
\* username of at least 3 characters.
C20_StoredRowsPassedValidation ==
    /\ (last.op = "register_submit" /\ ~last.valid) =>
          /\ ~last.created
          /\ last.fault = Calm
          /\ last.resp.status = 200
          /\ last.resp.template = "auth/register-simple.html.tera"
          /\ last.resp.errors # <<>>
    /\ \A r \in Slots :
          req[r].at = "validate" => req[r].pc = "done" /\ ~req[r].created
    /\ \A u \in store :
          /\ contains(u.email, "@")
          /\ CharCount(u.username) >= 3

====
